---- MODULE Spec2Model ----
(***************************************************************************)
(* pull-sizer (src/main.go): a webhook handler that labels a pull request  *)
(* with a size bucket.  One delivery is one run of processHook; the        *)
(* upstream (GitHub) holds the pull requests' files and labels.            *)
(***************************************************************************)
EXTENDS Integers, Sequences, FiniteSets, TLC

(***************************************************************************)
(* Bounds of the model.                                                    *)
(***************************************************************************)
\* deliveries accepted in one behaviour (over all workers)
MaxDeliveries == 2
\* pushes to a pull request in one behaviour
MaxPushes == 1
\* entries of one page of the files listing (100 in the code, scaled down)
PerPage == 2
\* the counts 0..MaxCount are all classified, and the larger ends of ranges
MaxCount == 110
\* bytes of a digest (20 for SHA-1, scaled down)
DigestLen == 2

\* goroutines serving deliveries at the same time
Procs == {1, 2}

Nil == "nil"

(***************************************************************************)
(* The size table.                                                         *)
(***************************************************************************)
\* math.MaxInt64, cut to the largest integer of the model checker
MaxInt64 == 2147483647

defaultSizes ==
    [k \in {"size/XS", "size/S", "size/M", "size/L", "size/XL", "size/XXL"} |->
        CASE k = "size/XS"  -> [Min |-> 0,    Max |-> 9]
          [] k = "size/S"   -> [Min |-> 10,   Max |-> 29]
          [] k = "size/M"   -> [Min |-> 30,   Max |-> 99]
          [] k = "size/L"   -> [Min |-> 100,  Max |-> 499]
          [] k = "size/XL"  -> [Min |-> 500,  Max |-> 999]
          [] k = "size/XXL" -> [Min |-> 1000, Max |-> MaxInt64]]

SizeLabels == DOMAIN defaultSizes

\* faulty variant: the lower end of the range is not tested
InRangeNoMin(c64) ==
    {k \in SizeLabels : c64 <= defaultSizes[k].Max}

\* faulty variant: the upper end of the range is taken as exclusive
InRangeExclusiveMax(c64) ==
    {k \in SizeLabels : c64 >= defaultSizes[k].Min /\ c64 < defaultSizes[k].Max}

\* the keys whose range contains the count: the add loop of updateLabel takes
\* the first one it meets, in the map's unspecified iteration order
InRange(c64) ==
    {k \in SizeLabels : c64 >= defaultSizes[k].Min /\ c64 <= defaultSizes[k].Max}

(***************************************************************************)
(* Strings: a string is a sequence of one-character strings (signatures)   *)
(* or of tokens (repository names, "/" being a token of its own).          *)
(***************************************************************************)
\* position of the first sep in s, 0 when there is none
RECURSIVE IndexOf(_, _, _)
IndexOf(s, sep, i) ==
    IF i > Len(s) THEN 0
    ELSE IF s[i] = sep THEN i
    ELSE IndexOf(s, sep, i + 1)

\* strings.Split(s, sep): the pieces of s between the separators; a string
\* without separator gives one piece
RECURSIVE Split(_, _)
Split(s, sep) ==
    LET i == IndexOf(s, sep, 1) IN
    IF i = 0 THEN <<s>>
    ELSE <<SubSeq(s, 1, i - 1)>> \o Split(SubSeq(s, i + 1, Len(s)), sep)

HexDigits == <<"0", "1", "2", "3", "4", "5", "6", "7",
               "8", "9", "a", "b", "c", "d", "e", "f">>

\* fmt's %x of a byte slice: two lowercase hexadecimal digits per byte
RECURSIVE Hex(_)
Hex(bytes) ==
    IF bytes = <<>> THEN <<>>
    ELSE <<HexDigits[(bytes[1] \div 16) + 1], HexDigits[(bytes[1] % 16) + 1]>>
         \o Hex(Tail(bytes))

\* character codes for the constant-time comparison
Chars == <<"0", "1", "2", "3", "4", "5", "6", "7", "8", "9",
           "a", "b", "c", "d", "e", "f", "s", "h", "=",
           "A", "B", "C", "D", "E", "F">>

Code(ch) == CHOOSE i \in 1..Len(Chars) : Chars[i] = ch

(***************************************************************************)
(* The keyed digest.  crypto/hmac with SHA-1 is a library; it is modelled  *)
(* as a keyed mixing function of the key and of every byte of the message, *)
(* DigestLen bytes long.                                                   *)
(***************************************************************************)
RECURSIVE Mix(_, _)
Mix(h, msg) ==
    IF msg = <<>> THEN h
    ELSE Mix((h * 31 + msg[1] + 7) % 251, Tail(msg))

Hmac(key, msg) ==
    [i \in 1..DigestLen |-> (Mix(key * 17 + i * 5, msg) * (i + 1) + key * 13) % 256]

Min2(a, b) == IF a < b THEN a ELSE b

\* subtle.ConstantTimeCompare: 0 at once when the lengths differ, otherwise
\* the differences of all bytes are accumulated and 1 is returned when
\* there is none
RECURSIVE Differences(_, _)
Differences(x, y) ==
    IF x = <<>> THEN 0
    ELSE (IF Code(x[1]) = Code(y[1]) THEN 0 ELSE 1) + Differences(Tail(x), Tail(y))

\* faulty variant: the lengths are not compared, only the common prefix is
ConstantTimeCompareNoLength(x, y) ==
    LET n == Min2(Len(x), Len(y)) IN
    IF Differences(SubSeq(x, 1, n), SubSeq(y, 1, n)) = 0 THEN 1 ELSE 0

ConstantTimeCompare(x, y) ==
    IF Len(x) # Len(y) THEN 0
    ELSE IF Differences(x, y) = 0 THEN 1 ELSE 0

Sha1Tag == <<"s", "h", "a", "1", "=">>

\* faulty variant: the result of the comparison is not looked at
validateSigUnchecked(secret, sig, body) ==
    LET sum == Hmac(secret, body)
        checksum == Sha1Tag \o Hex(sum)
    IN ConstantTimeCompare(checksum, sig) \in {0, 1}

\* faulty variant: the checksum lacks the "sha1=" tag
validateSigNoTag(secret, sig, body) ==
    LET sum == Hmac(secret, body)
        checksum == Hex(sum)
    IN ConstantTimeCompare(checksum, sig) = 1

\* validateSig: TRUE when it returns nil, FALSE when it returns the error
validateSig(secret, sig, body) ==
    LET sum == Hmac(secret, body)
        checksum == Sha1Tag \o Hex(sum)
    IN ConstantTimeCompare(checksum, sig) = 1

(***************************************************************************)
(* Deliveries.  A body is a sequence of bytes <<r, a, n>>: the codes of    *)
(* the repository's full name, of the action and of the pull request's     *)
(* number, 0 for a field the JSON object does not have.  Any other length  *)
(* is not a JSON object.                                                   *)
(***************************************************************************)
FullNames == << <<"acme", "/", "widget">>,
                <<"evil", "/", "widget">> >>

ActionNames == <<"opened", "synchronize", "reopened", "synchronized", "labeled">>

\* faulty variant: the error of the decoding is dropped, the payload is empty
ParseWebHookNoError(body) ==
    IF Len(body) # 3 THEN [err |-> FALSE, Repo |-> <<Nil>>, Action |-> Nil, Number |-> 0]
    ELSE [err    |-> FALSE,
          Repo   |-> IF body[1] = 0 THEN <<Nil>> ELSE FullNames[body[1]],
          Action |-> IF body[2] = 0 THEN Nil ELSE ActionNames[body[2]],
          Number |-> IF body[3] = 0 THEN 0 ELSE body[3]]

\* github.ParseWebHook for a pull_request event: an error, or the payload,
\* its absent fields nil pointers
ParseWebHook(body) ==
    IF Len(body) # 3 THEN [err |-> TRUE]
    ELSE [err    |-> FALSE,
          Repo   |-> IF body[1] = 0 THEN <<Nil>> ELSE FullNames[body[1]],
          Action |-> IF body[2] = 0 THEN Nil ELSE ActionNames[body[2]],
          Number |-> IF body[3] = 0 THEN 0 ELSE body[3]]

Bodies ==
    {<<>>}
    \cup {<<1, a, 1>> : a \in 1..Len(ActionNames)}
    \cup {<<r, a, 1>> : r \in 2..Len(FullNames), a \in {1, 5}}
    \cup {<<0, 1, 1>>, <<1, 0, 1>>, <<1, 1, 0>>}

Secrets == {1, 2}

Events == {"pull_request", "push"}

\* the configured GITHUB_REPO_NAME: an owner alone, or owner/name
RepoSpecs == {<<"acme">>, <<"acme", "/", "widget">>, <<"acme", "/", "gadget">>}

UpperHex(ch) ==
    CASE ch = "a" -> "A" [] ch = "b" -> "B" [] ch = "c" -> "C"
      [] ch = "d" -> "D" [] ch = "e" -> "E" [] ch = "f" -> "F"
      [] OTHER -> ch

\* the X-Hub-Signature values a sender may put on a body: none, the right
\* one, and near misses of it
Signatures(secret, body) ==
    LET good == Sha1Tag \o Hex(Hmac(secret, body)) IN
    { <<>>,
      good,
      Sha1Tag \o Hex(Hmac(CHOOSE s \in Secrets : s # secret, body)),
      Sha1Tag \o Hex(Hmac(secret, body \o <<1>>)),
      Sha1Tag \o [i \in 1..(2 * DigestLen) |-> UpperHex(Hex(Hmac(secret, body))[i])],
      SubSeq(good, 1, Len(good) - 1),
      Hex(Hmac(secret, body)) }

(***************************************************************************)
(* The upstream: the pull requests the deliveries are about (number 1 of   *)
(* acme/widget), each with its listing of changed files (the changed-line  *)
(* count of each file) and its set of labels.                              *)
(***************************************************************************)
PullRequests == {<<<<"acme">>, <<"widget">>>>}

FileLists == {<<4>>, <<30, 10, 7>>, <<400, 500, 90, 9, 1>>, <<-3>>}

\* the labels of acme/widget at the start: one that is no size label and two
\* stale size labels
StaleLabels == {"bug", "size/S", "size/XL"}

RECURSIVE SumSeq(_)
SumSeq(s) == IF s = <<>> THEN 0 ELSE s[1] + SumSeq(Tail(s))

\* the page of the listing that ListFiles answers for opts.Page (0 and 1
\* both ask for the first page), and the NextPage of the response
PageNo(optsPage) == IF optsPage = 0 THEN 1 ELSE optsPage

PageOf(list, optsPage) ==
    SubSeq(list, (PageNo(optsPage) - 1) * PerPage + 1,
           Min2(PageNo(optsPage) * PerPage, Len(list)))

NextPage(list, optsPage) ==
    IF PageNo(optsPage) * PerPage < Len(list) THEN PageNo(optsPage) + 1 ELSE 0

(***************************************************************************)
(* State.                                                                  *)
(***************************************************************************)
VARIABLES
    sharedSecret,   \* GITHUB_SHARED_SECRET
    repoOrOrgName,  \* GITHUB_REPO_NAME
    workers,        \* the goroutines that serve deliveries
    files,          \* upstream: pull request -> its files' changed-line counts
    labels,         \* upstream: pull request -> its labels
    pc,             \* per delivery: where processHook is, or has ended
    req,            \* per delivery: the request (sig, event, body)
    resp,           \* per delivery: the response written, or NoResp
    err,            \* per delivery: the error readPaginatedFileChanges or
                    \* updateLabel has returned, or Nil
    repoSplit,      \* per delivery: strings.Split of the payload's full name
    changes,        \* per delivery: the running total / the aggregated count
    page,           \* per delivery: opts.Page
    listed,         \* per delivery: ListFiles calls made
    pages,          \* per delivery: the pages ListFiles has answered, each with
                    \* the opts.Page asked, its entries and its NextPage
    removed,        \* per delivery: keys the removal loop has been through
    added,          \* per delivery: the label lists of the AddLabelsToIssue calls
    applied,        \* upstream: the runs of updateLabel that have returned nil,
                    \* in the order of their last call (worker, count, label)
    deliveries,     \* deliveries accepted so far
    pushes          \* pushes so far

vars == <<sharedSecret, repoOrOrgName, workers, files, labels, pc, req, resp, err, repoSplit,
          changes, page, listed, pages, removed, added, applied, deliveries, pushes>>

\* the size labels of a pull request
SizeLabelsOn(pr) == labels[pr] \cap SizeLabels

config == <<sharedSecret, repoOrOrgName, workers>>
upstream == <<files, labels, applied>>
locals == <<err, repoSplit, changes, page, listed, pages, removed, added>>
counters == <<deliveries, pushes>>

Requests(secret) ==
    UNION {{[sig |-> s, event |-> e, body |-> b] : s \in Signatures(secret, b), e \in Events}
           : b \in Bodies}

NoReq == [sig |-> <<>>, event |-> Nil, body |-> <<>>]

Response(status, message) == [status |-> status, message |-> message]

NoResp == Response(0, "")

\* gin.Recovery: a panic of the handler is answered with 500
Recovered == Response(500, "panic")

\* the state after main has read the configuration, no delivery yet
Started ==
    /\ sharedSecret \in Secrets
    /\ repoOrOrgName \in RepoSpecs
    /\ files = [pr \in PullRequests |-> <<4>>]
    /\ pc = [p \in Procs |-> "idle"]
    /\ req = [p \in Procs |-> NoReq]
    /\ resp = [p \in Procs |-> NoResp]
    /\ err = [p \in Procs |-> Nil]
    /\ repoSplit = [p \in Procs |-> <<>>]
    /\ changes = [p \in Procs |-> 0]
    /\ page = [p \in Procs |-> 0]
    /\ listed = [p \in Procs |-> 0]
    /\ pages = [p \in Procs |-> <<>>]
    /\ removed = [p \in Procs |-> {}]
    /\ added = [p \in Procs |-> <<>>]
    /\ applied = <<>>
    /\ deliveries = 0
    /\ pushes = 0

\* deliveries one after the other, of every request
Init ==
    /\ Started
    /\ workers = {1}
    /\ labels = [pr \in PullRequests |-> StaleLabels]

\* the requests of the concurrent deliveries: one for every way processHook
\* ends before the upstream calls, and one that reaches them
RacePool(secret) ==
    LET Good(b) == Sha1Tag \o Hex(Hmac(secret, b))
        Pull(b) == [sig |-> Good(b), event |-> "pull_request", body |-> b]
    IN { [sig |-> <<>>, event |-> "pull_request", body |-> <<1, 1, 1>>],
         [sig |-> Hex(Hmac(secret, <<1, 1, 1>>)), event |-> "pull_request", body |-> <<1, 1, 1>>],
         [sig |-> Good(<<1, 1, 1>>), event |-> "push", body |-> <<1, 1, 1>>],
         Pull(<<>>), Pull(<<0, 1, 1>>), Pull(<<2, 1, 1>>), Pull(<<1, 0, 1>>),
         Pull(<<1, 5, 1>>), Pull(<<1, 1, 0>>), Pull(<<1, 1, 1>>) }

AllRequests == [s \in Secrets |-> Requests(s)]

RaceRequests == [s \in Secrets |-> RacePool(s)]

\* the requests delivered: every request to one worker, the ones above to
\* concurrent workers
Pool == IF Cardinality(workers) = 1 THEN AllRequests[sharedSecret] ELSE RaceRequests[sharedSecret]

\* two deliveries at the same time
InitRace ==
    /\ Started
    /\ sharedSecret = 1
    /\ repoOrOrgName = <<"acme", "/", "widget">>
    /\ workers = Procs
    /\ labels = [pr \in PullRequests |-> StaleLabels]

\* processHook is at the place l and has not answered yet
At(p, l) == pc[p] = l /\ resp[p] = NoResp

\* processHook has answered and returned
Finished(p) == resp[p] # NoResp

\* c.JSON(status, message); return
Reply(p, status, message) ==
    /\ resp' = [resp EXCEPT ![p] = Response(status, message)]
    /\ UNCHANGED pc

Goto(p, label) ==
    /\ pc' = [pc EXCEPT ![p] = label]
    /\ UNCHANGED resp

(***************************************************************************)
(* The environment: a request arrives, a push changes a pull request.      *)
(***************************************************************************)
Deliver(p) ==
    /\ p \in workers
    /\ pc[p] = "idle"
    /\ deliveries < MaxDeliveries
    /\ \E r \in Pool : req' = [req EXCEPT ![p] = r]
    /\ pc' = [pc EXCEPT ![p] = "sig"]
    /\ deliveries' = deliveries + 1
    /\ UNCHANGED <<config, upstream, resp, locals, pushes>>

\* processHook has returned: the request and the handler's variables are
\* gone, the worker is free for another delivery
Return(p) ==
    /\ Finished(p)
    /\ deliveries < MaxDeliveries
    /\ pc' = [pc EXCEPT ![p] = "idle"]
    /\ req' = [req EXCEPT ![p] = NoReq]
    /\ resp' = [resp EXCEPT ![p] = NoResp]
    /\ err' = [err EXCEPT ![p] = Nil]
    /\ repoSplit' = [repoSplit EXCEPT ![p] = <<>>]
    /\ changes' = [changes EXCEPT ![p] = 0]
    /\ page' = [page EXCEPT ![p] = 0]
    /\ listed' = [listed EXCEPT ![p] = 0]
    /\ pages' = [pages EXCEPT ![p] = <<>>]
    /\ removed' = [removed EXCEPT ![p] = {}]
    /\ added' = [added EXCEPT ![p] = <<>>]
    /\ UNCHANGED <<config, upstream, counters>>

Push(pr) ==
    /\ pushes < MaxPushes
    /\ \E list \in FileLists \ {files[pr]} : files' = [files EXCEPT ![pr] = list]
    /\ pushes' = pushes + 1
    /\ UNCHANGED <<config, labels, applied, pc, req, resp, locals, deliveries>>

(***************************************************************************)
(* processHook, up to the first upstream call.                             *)
(***************************************************************************)
Local(p) == UNCHANGED <<config, upstream, req, locals, counters>>

\* sig == "": 400
MissingSignature(p) ==
    /\ At(p, "sig")
    /\ req[p].sig = <<>>
    /\ Reply(p, 400, "Missing X-Hub-Signature")
    /\ Local(p)

\* ioutil.ReadAll fails: 400
ReadBodyFails(p) ==
    /\ At(p, "sig")
    /\ req[p].sig # <<>>
    /\ Reply(p, 400, "Malformed body")
    /\ Local(p)

ReadBody(p) ==
    /\ At(p, "sig")
    /\ req[p].sig # <<>>
    /\ Goto(p, "validate")
    /\ Local(p)

\* validateSig returns an error: 403
SignatureMismatch(p) ==
    /\ At(p, "validate")
    /\ ~validateSig(sharedSecret, req[p].sig, req[p].body)
    /\ Reply(p, 403, "Validating payload against signature failed")
    /\ Local(p)

SignatureOk(p) ==
    /\ At(p, "validate")
    /\ validateSig(sharedSecret, req[p].sig, req[p].body)
    /\ Goto(p, "event")
    /\ Local(p)

\* event != "pull_request": 200
SkipEventType(p) ==
    /\ At(p, "event")
    /\ req[p].event # "pull_request"
    /\ Reply(p, 200, "Skipping event type")
    /\ Local(p)

PullRequestEvent(p) ==
    /\ At(p, "event")
    /\ req[p].event = "pull_request"
    /\ Goto(p, "parse")
    /\ Local(p)

\* github.ParseWebHook returns an error: 400
MalformedBody(p) ==
    /\ At(p, "parse")
    /\ ParseWebHook(req[p].body).err
    /\ Reply(p, 400, "Malformed body")
    /\ Local(p)

Parsed(p) ==
    /\ At(p, "parse")
    /\ ~ParseWebHook(req[p].body).err
    /\ Goto(p, "repo")
    /\ Local(p)

payload(p) == ParseWebHook(req[p].body)

\* faulty variant: the name of the repository is never compared
NotConfiguredOwnerOnly(rs, checkSplit) ==
    rs[1] # checkSplit[1]

\* the repository rule of processHook: TRUE when the delivery is answered
\* "Not configured for this repository"
NotConfigured(rs, checkSplit) ==
    \/ rs[1] # checkSplit[1]
    \/ (Len(checkSplit) > 1 /\ rs[2] # checkSplit[2])

\* *payload.Repo.FullName of a payload without repository: nil dereference
RepoPanics(p) ==
    /\ At(p, "repo")
    /\ payload(p).Repo = <<Nil>>
    /\ Reply(p, Recovered.status, Recovered.message)
    /\ Local(p)

RepoNotConfigured(p) ==
    /\ At(p, "repo")
    /\ payload(p).Repo # <<Nil>>
    /\ NotConfigured(Split(payload(p).Repo, "/"), Split(repoOrOrgName, "/"))
    /\ Reply(p, 403, "Not configured for this repository")
    /\ Local(p)

RepoConfigured(p) ==
    /\ At(p, "repo")
    /\ payload(p).Repo # <<Nil>>
    /\ ~NotConfigured(Split(payload(p).Repo, "/"), Split(repoOrOrgName, "/"))
    /\ repoSplit' = [repoSplit EXCEPT ![p] = Split(payload(p).Repo, "/")]
    /\ Goto(p, "action")
    /\ UNCHANGED <<config, upstream, req, err, changes, page, listed, pages, removed, added, counters>>

\* faulty variant: the action is spelled synchronized
RelevantSynchronized(action) ==
    ~(action # "opened" /\ action # "synchronized" /\ action # "reopened")

\* the actions processHook goes on with
Relevant(action) ==
    ~(action # "opened" /\ action # "synchronize" /\ action # "reopened")

\* *payload.Action of a payload without action: nil dereference
ActionPanics(p) ==
    /\ At(p, "action")
    /\ payload(p).Action = Nil
    /\ Reply(p, Recovered.status, Recovered.message)
    /\ Local(p)

SkipAction(p) ==
    /\ At(p, "action")
    /\ payload(p).Action # Nil
    /\ ~Relevant(payload(p).Action)
    /\ Reply(p, 200, "Skipping action")
    /\ Local(p)

\* *payload.Number of a payload without number: nil dereference, when the
\* arguments of readPaginatedFileChanges are evaluated
NumberPanics(p) ==
    /\ At(p, "action")
    /\ payload(p).Action # Nil
    /\ Relevant(payload(p).Action)
    /\ payload(p).Number = 0
    /\ Reply(p, Recovered.status, Recovered.message)
    /\ Local(p)

\* readPaginatedFileChanges is entered: opts.Page = 0, changes = 0
GetChanges(p) ==
    /\ At(p, "action")
    /\ payload(p).Action # Nil
    /\ Relevant(payload(p).Action)
    /\ payload(p).Number # 0
    /\ changes' = [changes EXCEPT ![p] = 0]
    /\ page' = [page EXCEPT ![p] = 0]
    /\ Goto(p, "list")
    /\ UNCHANGED <<config, upstream, req, err, repoSplit, listed, pages, removed, added, counters>>

(***************************************************************************)
(* readPaginatedFileChanges: one action per ListFiles call.                *)
(***************************************************************************)
PullRequest(p) == <<repoSplit[p][1], repoSplit[p][2]>>

\* faulty variant: the running total is returned with the error
AggregationFailsPartial(p) ==
    /\ err' = [err EXCEPT ![p] = "Failed to get PR changes"]
    /\ listed' = [listed EXCEPT ![p] = @ + 1]
    /\ Reply(p, 400, "Error reading PR changes")
    /\ UNCHANGED <<config, upstream, req, repoSplit, changes, page, pages, removed, added, counters>>

\* readPaginatedFileChanges returns 0 and an error, and processHook answers
AggregationFails(p) ==
    /\ changes' = [changes EXCEPT ![p] = 0]
    /\ err' = [err EXCEPT ![p] = "Failed to get PR changes"]
    /\ listed' = [listed EXCEPT ![p] = @ + 1]
    /\ Reply(p, 400, "Error reading PR changes")
    /\ UNCHANGED <<config, upstream, req, repoSplit, page, pages, removed, added, counters>>

\* ListFiles returns an error (no response, or a status the client rejects)
ListFilesError(p) ==
    /\ At(p, "list")
    /\ AggregationFails(p)

\* ListFiles returns no error and a status other than 200
ListFilesStatus(p) ==
    /\ At(p, "list")
    /\ AggregationFails(p)

\* faulty variant: the count of a page replaces the running total
ListFilesPageLast(p) ==
    /\ At(p, "list")
    /\ LET list == files[PullRequest(p)]
           cfs == PageOf(list, page[p])
           next == NextPage(list, page[p])
       IN /\ changes' = [changes EXCEPT ![p] = SumSeq(cfs)]
          /\ listed' = [listed EXCEPT ![p] = @ + 1]
          /\ pages' = [pages EXCEPT ![p] =
                          Append(@, [asked |-> page[p], cfs |-> cfs, next |-> next])]
          /\ IF next = 0
             THEN /\ Goto(p, "remove")
                  /\ UNCHANGED page
             ELSE /\ Goto(p, "list")
                  /\ page' = [page EXCEPT ![p] = next]
    /\ UNCHANGED <<config, upstream, req, err, repoSplit, removed, added, counters>>

\* ListFiles returns a page: its entries are added up, and the loop goes on
\* with resp.NextPage or ends
ListFilesPage(p) ==
    /\ At(p, "list")
    /\ LET list == files[PullRequest(p)]
           cfs == PageOf(list, page[p])
           next == NextPage(list, page[p])
       IN /\ changes' = [changes EXCEPT ![p] = @ + SumSeq(cfs)]
          /\ listed' = [listed EXCEPT ![p] = @ + 1]
          /\ pages' = [pages EXCEPT ![p] =
                          Append(@, [asked |-> page[p], cfs |-> cfs, next |-> next])]
          /\ IF next = 0
             THEN /\ Goto(p, "remove")
                  /\ UNCHANGED page
             ELSE /\ Goto(p, "list")
                  /\ page' = [page EXCEPT ![p] = next]
    /\ UNCHANGED <<config, upstream, req, err, repoSplit, removed, added, counters>>

(***************************************************************************)
(* updateLabel: one action per upstream call.  The removal loop ranges     *)
(* over the map in an unspecified order: any key not yet visited is next.  *)
(***************************************************************************)
\* faulty variant: the removal loop is left after its first key
AfterRemovalFirst(p) == "add"

\* faulty variant: the removal loop ends once no size label is left on the
\* pull request
AfterRemovalApplied(p) ==
    IF SizeLabelsOn(PullRequest(p)) \ removed'[p] = {} THEN "add" ELSE "remove"

\* faulty variant: the removal loop is never left
AfterRemovalAgain(p) == "remove"

AfterRemoval(p) == IF removed'[p] = SizeLabels THEN "add" ELSE "remove"

\* RemoveLabelForIssue fails without a response: res is nil and
\* res.StatusCode panics
RemoveLabelNoResponse(p) ==
    /\ At(p, "remove")
    /\ \E k \in SizeLabels \ removed[p] :
          removed' = [removed EXCEPT ![p] = @ \cup {k}]
    /\ Reply(p, Recovered.status, Recovered.message)
    /\ UNCHANGED <<config, upstream, req, err, repoSplit, changes, page, listed, pages, added, counters>>

\* 404, the label is not on the pull request: continue
RemoveLabelNotFound(p) ==
    /\ At(p, "remove")
    /\ \E k \in SizeLabels \ removed[p] :
          /\ k \notin labels[PullRequest(p)]
          /\ removed' = [removed EXCEPT ![p] = @ \cup {k}]
    /\ Goto(p, AfterRemoval(p))
    /\ UNCHANGED <<config, upstream, req, err, repoSplit, changes, page, listed, pages, added, counters>>

\* a response other than 404 with an error: updateLabel returns the error
\* and processHook answers
RemoveLabelFails(p) ==
    /\ At(p, "remove")
    /\ \E k \in SizeLabels \ removed[p] :
          removed' = [removed EXCEPT ![p] = @ \cup {k}]
    /\ err' = [err EXCEPT ![p] = "Unable to add label"]
    /\ Reply(p, 500, "Error processing request (1)")
    /\ UNCHANGED <<config, upstream, req, repoSplit, changes, page, listed, pages, added, counters>>

\* faulty variant: the removal is answered 200 and the label stays
RemoveLabelOkKept(p) ==
    /\ At(p, "remove")
    /\ \E k \in SizeLabels \ removed[p] :
          /\ k \in labels[PullRequest(p)]
          /\ removed' = [removed EXCEPT ![p] = @ \cup {k}]
    /\ Goto(p, AfterRemoval(p))
    /\ UNCHANGED <<config, upstream, req, err, repoSplit, changes, page, listed, pages, added, counters>>

\* faulty variant: the removal loop ranges over the labels of the pull
\* request, not over the size table
RemoveLabelOkAny(p) ==
    /\ At(p, "remove")
    /\ \E k \in labels[PullRequest(p)] \ removed[p] :
          /\ labels' = [labels EXCEPT ![PullRequest(p)] = @ \ {k}]
          /\ removed' = [removed EXCEPT ![p] = @ \cup {k}]
    /\ Goto(p, AfterRemoval(p))
    /\ UNCHANGED <<config, files, applied, req, err, repoSplit, changes, page, listed, pages, added, counters>>

\* the label is removed from the pull request
RemoveLabelOk(p) ==
    /\ At(p, "remove")
    /\ \E k \in SizeLabels \ removed[p] :
          /\ k \in labels[PullRequest(p)]
          /\ labels' = [labels EXCEPT ![PullRequest(p)] = @ \ {k}]
          /\ removed' = [removed EXCEPT ![p] = @ \cup {k}]
    /\ Goto(p, AfterRemoval(p))
    /\ UNCHANGED <<config, files, applied, req, err, repoSplit, changes, page, listed, pages, added, counters>>

\* the add loop finds a key whose range contains the count, and
\* AddLabelsToIssue succeeds: updateLabel returns nil and processHook answers
AddLabelsOk(p) ==
    /\ At(p, "add")
    /\ \E k \in InRange(changes[p]) :
          /\ labels' = [labels EXCEPT ![PullRequest(p)] = @ \cup {k}]
          /\ added' = [added EXCEPT ![p] = Append(@, <<k>>)]
          /\ applied' = Append(applied, [by |-> p, count |-> changes[p], label |-> k])
    /\ Reply(p, 200, "Success")
    /\ UNCHANGED <<config, files, req, err, repoSplit, changes, page, listed, pages, removed, counters>>

\* AddLabelsToIssue returns an error: updateLabel returns it and processHook
\* answers
AddLabelsFails(p) ==
    /\ At(p, "add")
    /\ \E k \in InRange(changes[p]) :
          added' = [added EXCEPT ![p] = Append(@, <<k>>)]
    /\ err' = [err EXCEPT ![p] = "Unable to add label"]
    /\ Reply(p, 500, "Error processing request (1)")
    /\ UNCHANGED <<config, upstream, req, repoSplit, changes, page, listed, pages, removed, counters>>

\* faulty variant: a count that no range contains is an error
NoMatchFails(p) ==
    /\ At(p, "add")
    /\ InRange(changes[p]) = {}
    /\ err' = [err EXCEPT ![p] = "No size for the count"]
    /\ Reply(p, 500, "Error processing request (1)")
    /\ UNCHANGED <<config, upstream, req, repoSplit, changes, page, listed, pages, removed, added, counters>>

\* no range contains the count: updateLabel returns "", nil and processHook
\* answers
NoMatch(p) ==
    /\ At(p, "add")
    /\ InRange(changes[p]) = {}
    /\ applied' = Append(applied, [by |-> p, count |-> changes[p], label |-> Nil])
    /\ Reply(p, 200, "Success")
    /\ UNCHANGED <<config, files, labels, req, locals, counters>>

(***************************************************************************)
(* The specification.                                                      *)
(***************************************************************************)
Next ==
    \/ \E p \in Procs : Deliver(p)
    \/ \E p \in Procs : Return(p)
    \/ \E pr \in PullRequests : Push(pr)
    \/ \E p \in Procs : MissingSignature(p)
    \/ \E p \in Procs : ReadBodyFails(p)
    \/ \E p \in Procs : ReadBody(p)
    \/ \E p \in Procs : SignatureMismatch(p)
    \/ \E p \in Procs : SignatureOk(p)
    \/ \E p \in Procs : SkipEventType(p)
    \/ \E p \in Procs : PullRequestEvent(p)
    \/ \E p \in Procs : MalformedBody(p)
    \/ \E p \in Procs : Parsed(p)
    \/ \E p \in Procs : RepoPanics(p)
    \/ \E p \in Procs : RepoNotConfigured(p)
    \/ \E p \in Procs : RepoConfigured(p)
    \/ \E p \in Procs : ActionPanics(p)
    \/ \E p \in Procs : SkipAction(p)
    \/ \E p \in Procs : NumberPanics(p)
    \/ \E p \in Procs : GetChanges(p)
    \/ \E p \in Procs : ListFilesError(p)
    \/ \E p \in Procs : ListFilesStatus(p)
    \/ \E p \in Procs : ListFilesPage(p)
    \/ \E p \in Procs : RemoveLabelNoResponse(p)
    \/ \E p \in Procs : RemoveLabelNotFound(p)
    \/ \E p \in Procs : RemoveLabelFails(p)
    \/ \E p \in Procs : RemoveLabelOk(p)
    \/ \E p \in Procs : AddLabelsOk(p)
    \/ \E p \in Procs : AddLabelsFails(p)
    \/ \E p \in Procs : NoMatch(p)

Spec == Init /\ [][Next]_vars

\* the steps of processHook for one delivery, up to its response
Step(p) ==
    \/ MissingSignature(p) \/ ReadBodyFails(p) \/ ReadBody(p)
    \/ SignatureMismatch(p) \/ SignatureOk(p)
    \/ SkipEventType(p) \/ PullRequestEvent(p)
    \/ MalformedBody(p) \/ Parsed(p)
    \/ RepoPanics(p) \/ RepoNotConfigured(p) \/ RepoConfigured(p)
    \/ ActionPanics(p) \/ SkipAction(p) \/ NumberPanics(p) \/ GetChanges(p)
    \/ ListFilesError(p) \/ ListFilesStatus(p) \/ ListFilesPage(p)
    \/ RemoveLabelNoResponse(p) \/ RemoveLabelNotFound(p)
    \/ RemoveLabelFails(p) \/ RemoveLabelOk(p)
    \/ AddLabelsOk(p) \/ AddLabelsFails(p) \/ NoMatch(p)

\* deliveries one after the other under one configuration; the goroutine of
\* a delivery goes on as long as it can, and every upstream call returns
InitLive ==
    /\ Init
    /\ sharedSecret = 1
    /\ repoOrOrgName = <<"acme", "/", "widget">>

SpecLive == InitLive /\ [][Next]_vars /\ \A p \in Procs : WF_vars(Step(p))

SpecRace == InitRace /\ [][Next]_vars

(***************************************************************************)
(* The add loop of updateLabel alone, for every count of Counts: a         *)
(* delivery for a pull request with one file of that many changed lines    *)
(* has aggregated the count and has been through the removal pass.         *)
(***************************************************************************)
Counts == (0..MaxCount) \cup {-1, 499, 500, 999, 1000, MaxInt64}

InitSizes ==
    /\ sharedSecret = 1
    /\ repoOrOrgName = <<"acme", "/", "widget">>
    /\ workers = {1}
    /\ \E n \in Counts :
          /\ files = [pr \in PullRequests |-> <<n>>]
          /\ changes = [p \in Procs |-> IF p = 1 THEN n ELSE 0]
          /\ pages = [p \in Procs |->
                         IF p = 1 THEN <<[asked |-> 0, cfs |-> <<n>>, next |-> 0]>> ELSE <<>>]
    /\ labels = [pr \in PullRequests |-> StaleLabels \ SizeLabels]
    /\ pc = [p \in Procs |-> IF p = 1 THEN "add" ELSE "idle"]
    /\ req = [p \in Procs |->
                 IF p = 1 THEN [sig |-> Sha1Tag \o Hex(Hmac(1, <<1, 1, 1>>)),
                                event |-> "pull_request", body |-> <<1, 1, 1>>]
                 ELSE NoReq]
    /\ resp = [p \in Procs |-> NoResp]
    /\ err = [p \in Procs |-> Nil]
    /\ repoSplit = [p \in Procs |-> IF p = 1 THEN Split(FullNames[1], "/") ELSE <<>>]
    /\ page = [p \in Procs |-> 0]
    /\ listed = [p \in Procs |-> IF p = 1 THEN 1 ELSE 0]
    /\ removed = [p \in Procs |-> IF p = 1 THEN SizeLabels ELSE {}]
    /\ added = [p \in Procs |-> <<>>]
    /\ applied = <<>>
    /\ deliveries = 1
    /\ pushes = 0

NextSizes ==
    \/ \E p \in Procs : AddLabelsOk(p)
    \/ \E p \in Procs : AddLabelsFails(p)
    \/ \E p \in Procs : NoMatch(p)

SpecSizes == InitSizes /\ [][NextSizes]_vars

(***************************************************************************)
(* What the claims speak of, stated on the request and on the record of    *)
(* the delivery, not on the handler's own tests.                           *)
(***************************************************************************)
Rank(l) ==
    CASE l = "idle" -> 0 [] l = "sig" -> 1 [] l = "validate" -> 2
      [] l = "event" -> 3 [] l = "parse" -> 4 [] l = "repo" -> 5
      [] l = "action" -> 6 [] l = "list" -> 7 [] l = "remove" -> 8
      [] l = "add" -> 9

\* sign(s, b) = "sha1=" + hex(HMAC(s, b))
SignOf(secret, body) == Sha1Tag \o Hex(Hmac(secret, body))

\* the body is a JSON object; it has all the fields of a pull request event
IsObject(b) == Len(b) = 3
Complete(b) == IsObject(b) /\ b[1] # 0 /\ b[2] # 0 /\ b[3] # 0
RepoOf(b) == FullNames[b[1]]
ActionOf(b) == ActionNames[b[2]]

OwnerOf(full) == full[1]
NameOf(full) == full[3]

\* the configured owner, or owner/name, covers the repository
ConfigMatches(full, spec) ==
    /\ OwnerOf(full) = OwnerOf(spec)
    /\ (Len(spec) > 1 => NameOf(full) = NameOf(spec))

\* the delivery has ended and its body had been read
EndedWithBody(p) == Finished(p) /\ pc[p] # "sig"

\* the signature of the delivery is the digest of its body
Authenticated(p) == req[p].sig = SignOf(sharedSecret, req[p].body)

\* an authenticated pull_request event with all its fields, of the
\* configured repository
ConfiguredPullRequest(p) ==
    /\ Authenticated(p)
    /\ req[p].event = "pull_request"
    /\ Complete(req[p].body)
    /\ ConfigMatches(RepoOf(req[p].body), repoOrOrgName)

NoUpstreamCall(p) == listed[p] = 0 /\ removed[p] = {} /\ added[p] = <<>>

\* the delivery has gone on to the aggregation
Proceeded(p) == Rank(pc[p]) >= Rank("list")

AggregationFailed(p) == Finished(p) /\ pc[p] = "list"

ReconciliationFailed(p) ==
    Finished(p) /\ (pc[p] = "remove" \/ (pc[p] = "add" /\ err[p] # Nil))

\* updateLabel has returned nil
Reconciled(p) == Finished(p) /\ pc[p] = "add" /\ err[p] = Nil

(***************************************************************************)
(* C1: a delivery that has passed the signature validation and the filter  *)
(* and whose aggregation or reconciliation fails is answered with 500.     *)
(* The code answers a failed aggregation with 400.                         *)
(***************************************************************************)
C1_UpstreamFailureAnswers500 ==
    \A p \in Procs :
        (AggregationFailed(p) \/ ReconciliationFailed(p)) => resp[p].status = 500

(***************************************************************************)
(* C2, as claimed: an authenticated pull_request event of the configured   *)
(* repository goes on to the aggregation exactly when its action is        *)
(* opened, synchronized or reopened, and is answered 200 "Skipping action" *)
(* otherwise.                                                              *)
(***************************************************************************)
ActionRule(p, relevant) ==
    /\ (Proceeded(p) /\ Complete(req[p].body)) => ActionOf(req[p].body) \in relevant
    /\ (EndedWithBody(p) /\ ConfiguredPullRequest(p)) =>
          IF ActionOf(req[p].body) \in relevant
          THEN Proceeded(p)
          ELSE /\ pc[p] = "action"
               /\ resp[p] = Response(200, "Skipping action")
               /\ NoUpstreamCall(p)

C2_Original ==
    \A p \in Procs : ActionRule(p, {"opened", "synchronized", "reopened"})

(***************************************************************************)
(* C2, amended: an authenticated pull_request event of the configured      *)
(* repository that carries repository, action and number goes on to the    *)
(* aggregation exactly when its action is opened, synchronize or reopened, *)
(* and is answered 200 "Skipping action" otherwise.                        *)
(***************************************************************************)
C2_ActionRule ==
    \A p \in Procs : ActionRule(p, {"opened", "synchronize", "reopened"})

C2_Witness ==
    \E p \in Procs :
        /\ EndedWithBody(p) /\ ConfiguredPullRequest(p)
        /\ ActionOf(req[p].body) = "synchronize"
        /\ Proceeded(p)
        /\ resp[p] = Response(200, "Success")

(***************************************************************************)
(* C3: a delivery without signature, with a signature that does not match, *)
(* of another event type than pull_request, with an unparseable body, of a *)
(* repository that is not configured or with an action that is not         *)
(* relevant makes no upstream call (ListFiles, RemoveLabelForIssue,        *)
(* AddLabelsToIssue).                                                      *)
(***************************************************************************)
EndsBeforeUpstream(r) ==
    \/ r.sig = <<>>
    \/ r.sig # SignOf(sharedSecret, r.body)
    \/ r.event # "pull_request"
    \/ ~IsObject(r.body)
    \/ (r.body[1] # 0 /\ ~ConfigMatches(RepoOf(r.body), repoOrOrgName))
    \/ (r.body[2] # 0 /\ ActionOf(r.body) \notin {"opened", "synchronize", "reopened"})

C3_NoUpstreamCallBeforeChecks ==
    \A p \in Procs :
        (pc[p] # "idle" /\ EndsBeforeUpstream(req[p])) => NoUpstreamCall(p)

C3_Witness ==
    \E p \in Procs :
        /\ EndedWithBody(p) /\ ConfiguredPullRequest(p)
        /\ ActionOf(req[p].body) = "labeled"
        /\ resp[p] = Response(200, "Skipping action")
        /\ NoUpstreamCall(p)

(***************************************************************************)
(* C4, as claimed: a delivery whose signature is absent or does not match  *)
(* the digest of its body ends with 403.                                   *)
(***************************************************************************)
C4_Original ==
    \A p \in Procs :
        (Finished(p) /\ (req[p].sig = <<>> \/ (pc[p] # "sig" /\ ~Authenticated(p))))
            => resp[p].status = 403

(***************************************************************************)
(* C4, amended: a delivery whose signature is present and does not match   *)
(* the digest of the body read ends with 403, whatever its event type and  *)
(* body; a delivery without signature ends with 400.                       *)
(***************************************************************************)
C4_SignatureFailure ==
    \A p \in Procs :
        /\ (Finished(p) /\ req[p].sig = <<>>) =>
              resp[p] = Response(400, "Missing X-Hub-Signature")
        /\ (EndedWithBody(p) /\ req[p].sig # <<>> /\ ~Authenticated(p)) =>
              resp[p] = Response(403, "Validating payload against signature failed")

C4_Witness ==
    \E p \in Procs :
        /\ EndedWithBody(p) /\ req[p].sig # <<>> /\ ~Authenticated(p)
        /\ req[p].event = "push" /\ ~IsObject(req[p].body)
        /\ resp[p].status = 403

(***************************************************************************)
(* C5: validateSig accepts the signature sign(s, b) = "sha1=" + hex(HMAC)  *)
(* of the body under the shared secret and rejects every other signature,  *)
(* also the one of another secret or of another body.                      *)
(***************************************************************************)
Validated(p) == Rank(pc[p]) > Rank("validate")
Rejected(p) == Finished(p) /\ pc[p] = "validate"

C5_ValidateSig ==
    \A p \in Procs :
        (Validated(p) \/ Rejected(p)) => (Validated(p) <=> Authenticated(p))

C5_Witness ==
    \E p \in Procs : \E s \in Secrets :
        /\ s # sharedSecret
        /\ req[p].sig = SignOf(s, req[p].body)
        /\ Rejected(p)

(***************************************************************************)
(* C6: an authenticated pull_request event that names its repository ends  *)
(* with 403 exactly when its owner is not the configured owner, or the     *)
(* configuration names a repository and the event's is another one; the    *)
(* rule comes before the action rule, the 403 is given whatever the action.*)
(***************************************************************************)
NamesRepository(p) ==
    /\ Authenticated(p)
    /\ req[p].event = "pull_request"
    /\ IsObject(req[p].body)
    /\ req[p].body[1] # 0

C6_RepositoryRule ==
    \A p \in Procs :
        /\ (EndedWithBody(p) /\ NamesRepository(p)) =>
              /\ resp[p].status = 403
                    <=> ~ConfigMatches(RepoOf(req[p].body), repoOrOrgName)
              /\ resp[p].status = 403 =>
                    /\ pc[p] = "repo"
                    /\ resp[p].message = "Not configured for this repository"
        /\ (Rank(pc[p]) > Rank("repo") /\ NamesRepository(p)) =>
              ConfigMatches(RepoOf(req[p].body), repoOrOrgName)

C6_Witness ==
    \E p \in Procs :
        /\ EndedWithBody(p) /\ NamesRepository(p)
        /\ OwnerOf(RepoOf(req[p].body)) = OwnerOf(repoOrOrgName)
        /\ ~ConfigMatches(RepoOf(req[p].body), repoOrOrgName)
        /\ req[p].body[2] # 0 /\ ActionOf(req[p].body) = "labeled"
        /\ resp[p].status = 403

(***************************************************************************)
(* C7, as claimed: a delivery with a valid signature and a body that is no *)
(* payload ends with 400 and makes no upstream call, whatever its event    *)
(* type.                                                                   *)
(***************************************************************************)
C7_Original ==
    \A p \in Procs :
        (EndedWithBody(p) /\ Authenticated(p) /\ ~IsObject(req[p].body)) =>
            /\ resp[p].status = 400
            /\ NoUpstreamCall(p)

(***************************************************************************)
(* C7, amended: a delivery with a valid signature and a body that is no    *)
(* payload makes no upstream call; it ends with 400 when its event type is *)
(* pull_request, and with 200 "Skipping event type", its body not parsed,  *)
(* when it is another one.                                                 *)
(***************************************************************************)
C7_MalformedBody ==
    \A p \in Procs :
        (EndedWithBody(p) /\ Authenticated(p) /\ ~IsObject(req[p].body)) =>
            /\ NoUpstreamCall(p)
            /\ IF req[p].event = "pull_request"
               THEN resp[p] = Response(400, "Malformed body")
               ELSE resp[p] = Response(200, "Skipping event type")

C7_Witness ==
    \E p \in Procs :
        /\ EndedWithBody(p) /\ Authenticated(p) /\ ~IsObject(req[p].body)
        /\ req[p].event = "pull_request"
        /\ resp[p].status = 400

(***************************************************************************)
(* C8: a delivery whose aggregation and reconciliation succeed with a      *)
(* count n >= 0 makes exactly one AddLabelsToIssue call, with exactly the   *)
(* size label of n (47: size/M), and is answered 200.                      *)
(***************************************************************************)
LabelFor(n) ==
    IF n < 10 THEN "size/XS"
    ELSE IF n < 30 THEN "size/S"
    ELSE IF n < 100 THEN "size/M"
    ELSE IF n < 500 THEN "size/L"
    ELSE IF n < 1000 THEN "size/XL"
    ELSE "size/XXL"

C8_OneLabelAdded ==
    \A p \in Procs :
        (Reconciled(p) /\ changes[p] >= 0) =>
            /\ added[p] = << <<LabelFor(changes[p])>> >>
            /\ resp[p].status = 200

C8_Witness ==
    \E p \in Procs :
        /\ Reconciled(p)
        /\ changes[p] = 47
        /\ added[p] = << <<"size/M">> >>
        /\ resp[p].status = 200

(***************************************************************************)
(* C9, as claimed: when two deliveries for the same pull request have both *)
(* succeeded, whatever the interleaving of their upstream calls, the size  *)
(* labels of the pull request are exactly the label added by the delivery  *)
(* that made its AddLabelsToIssue call last.                               *)
(***************************************************************************)
\* the delivery has succeeded and has added a label
Added(p) == Reconciled(p) /\ added[p] # <<>>

BothAdded(p, q) ==
    /\ p # q
    /\ Added(p) /\ Added(q)
    /\ PullRequest(p) = PullRequest(q)

LastApplied == applied[Len(applied)]

C9_Original ==
    \A p, q \in Procs :
        BothAdded(p, q) => SizeLabelsOn(PullRequest(p)) = {LastApplied.label}

(***************************************************************************)
(* C9, amended: when two deliveries for the same pull request have both    *)
(* succeeded, the size labels of the pull request contain the label added  *)
(* by the delivery that made its AddLabelsToIssue call last and no label   *)
(* but the two the deliveries have added: the label of the other delivery  *)
(* stays when it differs and the later delivery had ended its removal pass *)
(* before it was added.                                                    *)
(***************************************************************************)
C9_LastWriterKept ==
    \A p, q \in Procs :
        BothAdded(p, q) =>
            /\ LastApplied.label \in SizeLabelsOn(PullRequest(p))
            /\ SizeLabelsOn(PullRequest(p)) \subseteq {added[p][1][1], added[q][1][1]}

C9_Witness ==
    \E p, q \in Procs :
        /\ BothAdded(p, q)
        /\ added[p][1][1] # added[q][1][1]
        /\ SizeLabelsOn(PullRequest(p)) = {added[p][1][1], added[q][1][1]}

(***************************************************************************)
(* C10: two reconciliations in a row, the one after the other, with the    *)
(* same count: the second one succeeds too, the 404 of the labels that are *)
(* not on the pull request taken as success, and the pull request ends     *)
(* with exactly one size label.                                            *)
(***************************************************************************)
\* the last two runs of updateLabel that returned nil had the same count,
\* and the delivery of the second is still the one on record
TwiceInARow(p) ==
    /\ Added(p)
    /\ Len(applied) >= 2
    /\ LastApplied.by = p
    /\ LastApplied.count = changes[p]
    /\ applied[Len(applied) - 1].count = LastApplied.count

C10_Idempotent ==
    \A p \in Procs :
        TwiceInARow(p) =>
            /\ resp[p] = Response(200, "Success")
            /\ removed[p] = SizeLabels
            /\ SizeLabelsOn(PullRequest(p)) = {LabelFor(changes[p])}
            /\ Cardinality(SizeLabelsOn(PullRequest(p))) = 1

C10_Witness ==
    \E p \in Procs :
        /\ TwiceInARow(p)
        /\ applied[Len(applied) - 1].label = LastApplied.label
        /\ SizeLabelsOn(PullRequest(p)) = {LastApplied.label}

(***************************************************************************)
(* C11: in every delivery, on every path, the labels whose removal is      *)
(* requested and the labels of the AddLabelsToIssue calls are names of the *)
(* size table, and no step changes the labels of a pull request that are   *)
(* no size labels.                                                         *)
(***************************************************************************)
\* the labels a delivery has asked the upstream to add
AddedLabels(p) ==
    UNION {{added[p][i][j] : j \in 1..Len(added[p][i])} : i \in 1..Len(added[p])}

OtherLabels(ls) == ls \ SizeLabels

C11_OnlySizeLabelsTouched ==
    /\ [](\A p \in Procs : removed[p] \subseteq SizeLabels /\ AddedLabels(p) \subseteq SizeLabels)
    /\ [][\A pr \in PullRequests : OtherLabels(labels'[pr]) = OtherLabels(labels[pr])]_vars

C11_Witness ==
    \E p \in Procs :
        /\ Reconciled(p)
        /\ removed[p] = SizeLabels
        /\ AddedLabels(p) = {"size/M"}
        /\ labels[PullRequest(p)] = {"bug", "size/M"}

(***************************************************************************)
(* C12: in every run of updateLabel the AddLabelsToIssue call comes after  *)
(* the removal has been requested for all six names of the size table,     *)
(* whether on the pull request or not; a run that ends in the removal pass *)
(* has added no label.                                                     *)
(***************************************************************************)
C12_AddAfterFullRemoval ==
    \A p \in Procs :
        /\ (pc[p] = "add" \/ added[p] # <<>>) => removed[p] = SizeLabels
        /\ removed[p] # SizeLabels => added[p] = <<>>
        /\ Cardinality(SizeLabels) = 6

C12_Witness ==
    \E p \in Procs :
        /\ Finished(p) /\ pc[p] = "add" /\ err[p] # Nil
        /\ added[p] # <<>>
        /\ removed[p] = SizeLabels
        /\ SizeLabelsOn(PullRequest(p)) = {}

(***************************************************************************)
(* C13: when every ListFiles call succeeds, readPaginatedFileChanges asks  *)
(* for the first page, then for the page each response names as the next,  *)
(* stops at the first response that names none, and returns the sum of the *)
(* changed-line counts of all entries of all the pages it was given.       *)
(***************************************************************************)
\* readPaginatedFileChanges has returned a count and nil
Aggregated(p) == Rank(pc[p]) >= Rank("remove")

\* the entries of the pages, one page after the other
RECURSIVE Entries(_)
Entries(ps) == IF ps = <<>> THEN <<>> ELSE ps[1].cfs \o Entries(Tail(ps))

\* the first page is asked without page number, every later one is the one
\* the response before has named
FollowsNextPage(ps) ==
    \A i \in 1..Len(ps) :
        IF i = 1 THEN ps[i].asked = 0
        ELSE ps[i - 1].next # 0 /\ ps[i].asked = ps[i - 1].next

C13_ExactSumOverPages ==
    \A p \in Procs :
        /\ FollowsNextPage(pages[p])
        /\ \A i \in 1..(Len(pages[p]) - 1) : pages[p][i].next # 0
        /\ At(p, "list") =>
              /\ listed[p] = Len(pages[p])
              /\ \A i \in 1..Len(pages[p]) : pages[p][i].next # 0
        /\ Aggregated(p) =>
              /\ pages[p] # <<>>
              /\ pages[p][Len(pages[p])].next = 0
              /\ listed[p] = Len(pages[p])
              /\ changes[p] = SumSeq(Entries(pages[p]))

C13_Witness ==
    \E p \in Procs :
        /\ Aggregated(p)
        /\ Len(pages[p]) = 3
        /\ Entries(pages[p]) = <<400, 500, 90, 9, 1>>
        /\ changes[p] = 1000

(***************************************************************************)
(* C14: when a ListFiles call fails, the first or a later one,             *)
(* readPaginatedFileChanges returns an error and the count 0, not the sum  *)
(* of the pages read so far; the failed call is its last one, and the      *)
(* delivery asks for no removal and no addition of a label.                *)
(***************************************************************************)
C14_FailedAggregation ==
    \A p \in Procs :
        AggregationFailed(p) =>
            /\ err[p] # Nil
            /\ changes[p] = 0
            /\ listed[p] = Len(pages[p]) + 1
            /\ removed[p] = {}
            /\ added[p] = <<>>
            /\ resp[p].status # 200

C14_Witness ==
    \E p \in Procs :
        /\ AggregationFailed(p)
        /\ Len(pages[p]) = 1
        /\ SumSeq(Entries(pages[p])) = 900
        /\ changes[p] = 0
        /\ SizeLabelsOn(PullRequest(p)) = StaleLabels \cap SizeLabels

(***************************************************************************)
(* C15: the ranges of the default size table are disjoint and cover every  *)
(* count from 0 to the largest integer: exactly one key's range contains   *)
(* the count, so the add loop picks the same label in every iteration      *)
(* order of the map; 9 is size/XS and 10 size/S, 29 size/S and 30 size/M,  *)
(* 99 size/M and 100 size/L, 499 size/L and 500 size/XL, 999 size/XL and   *)
(* 1000 size/XXL.                                                          *)
(***************************************************************************)
Boundary(n) ==
    CASE n = 9 -> "size/XS"  [] n = 10 -> "size/S"
      [] n = 29 -> "size/S"  [] n = 30 -> "size/M"
      [] n = 99 -> "size/M"  [] n = 100 -> "size/L"
      [] n = 499 -> "size/L" [] n = 500 -> "size/XL"
      [] n = 999 -> "size/XL" [] n = 1000 -> "size/XXL"
      [] OTHER -> LabelFor(n)

C15_DisjointExhaustive ==
    \A p \in Procs :
        (pc[p] = "add" /\ changes[p] >= 0) =>
            /\ Cardinality(InRange(changes[p])) = 1
            /\ InRange(changes[p]) = {Boundary(changes[p])}
            /\ AddedLabels(p) \subseteq {Boundary(changes[p])}
            /\ Reconciled(p) => added[p] = << <<Boundary(changes[p])>> >>

C15_Witness ==
    \E p \in Procs :
        /\ Reconciled(p)
        /\ changes[p] = 999
        /\ added[p] = << <<"size/XL">> >>
        /\ SizeLabelsOn(PullRequest(p)) = {"size/XL"}

(***************************************************************************)
(* C16: in the removal pass a 404 answer counts as success and the pass    *)
(* goes on with the next label; with any other failure of a removal        *)
(* updateLabel returns an error before any label is added: the delivery    *)
(* that ends in the removal pass has the error of updateLabel, is answered *)
(* 500 "Error processing request (1)" and has added no label.  The code    *)
(* faults, and returns no error, when the failed call has no response.     *)
(***************************************************************************)
\* the delivery has ended within the removal pass of updateLabel
RemovalFailed(p) == Finished(p) /\ pc[p] = "remove"

C16_RemovalFailureReturnsError ==
    \A p \in Procs :
        /\ RemovalFailed(p) =>
              /\ err[p] # Nil
              /\ resp[p] = Response(500, "Error processing request (1)")
              /\ added[p] = <<>>
        /\ (Aggregated(p) /\ ~RemovalFailed(p)) =>
              \A k \in removed[p] : k \notin SizeLabelsOn(PullRequest(p)) \/ AddedLabels(p) = {k}

(***************************************************************************)
(* C17: when no range of the size table contains the count (a count below  *)
(* 0, the table covering all others), updateLabel makes no                 *)
(* AddLabelsToIssue call and returns no error, the delivery is answered    *)
(* 200, and the removal pass has been run for every size label: the pull   *)
(* request is left without size label.                                     *)
(***************************************************************************)
\* the run of updateLabel has ended in its add loop with a count out of
\* every range
EndedUnmatched(p) == Finished(p) /\ pc[p] = "add" /\ changes[p] < 0

C17_NoMatchClearsOnly ==
    \A p \in Procs :
        EndedUnmatched(p) =>
            /\ added[p] = <<>>
            /\ err[p] = Nil
            /\ resp[p] = Response(200, "Success")
            /\ removed[p] = SizeLabels
            /\ SizeLabelsOn(PullRequest(p)) = {}

C17_Witness ==
    \E p \in Procs :
        /\ EndedUnmatched(p)
        /\ changes[p] = -3
        /\ labels[PullRequest(p)] = StaleLabels \ SizeLabels
        /\ resp[p].status = 200

(***************************************************************************)
(* C18: every delivery that has begun ends with a response, the loops over *)
(* the pages and over the size table ending, provided its goroutine runs   *)
(* and every upstream call returns; and a response once written is the     *)
(* only one of the delivery.                                               *)
(***************************************************************************)
C18_EveryDeliveryEnds ==
    /\ \A p \in Procs : (pc[p] # "idle") ~> Finished(p)
    /\ [][\A p \in Procs :
            Finished(p) => (resp'[p] = resp[p] \/ (resp'[p] = NoResp /\ pc'[p] = "idle"))]_vars

C18_Witness ==
    \E p \in Procs :
        /\ Finished(p)
        /\ Len(pages[p]) = 3
        /\ removed[p] = SizeLabels
        /\ resp[p] = Response(200, "Success")

(***************************************************************************)
(* C19: deliveries for one pull request, the one after the other: whatever *)
(* size labels the pull request carries before (several stale ones, one,   *)
(* or none), after each delivery that ends with success and a count of 0   *)
(* or more it carries exactly one size label, the one whose range contains *)
(* the count the delivery has aggregated.                                  *)
(***************************************************************************)
C19_ExactlyOneSizeLabel ==
    \A p \in Procs :
        (Cardinality(workers) = 1 /\ Reconciled(p) /\ changes[p] >= 0) =>
            /\ resp[p] = Response(200, "Success")
            /\ Cardinality(SizeLabelsOn(PullRequest(p))) = 1
            /\ \A k \in SizeLabelsOn(PullRequest(p)) :
                  defaultSizes[k].Min <= changes[p] /\ changes[p] <= defaultSizes[k].Max

C19_Witness ==
    \E p \in Procs :
        /\ Reconciled(p)
        /\ Len(applied) = 2
        /\ applied[1].label = "size/XS"
        /\ changes[p] = 47
        /\ SizeLabelsOn(PullRequest(p)) = {"size/M"}

(***************************************************************************)
(* C20: updateLabel reads the status of a removal's response only when     *)
(* there is a response: no delivery faults within updateLabel, a removal   *)
(* that fails without response is returned as an error.  The code reads    *)
(* res.StatusCode first and faults on the nil response.                    *)
(***************************************************************************)
C20_NoFaultOnMissingResponse ==
    \A p \in Procs :
        Aggregated(p) => resp[p] # Recovered

====
